---- MODULE Spec2Model ----
(***************************************************************************)
(* layout3mesh: a layer-stack configuration is loaded into a LayerStack    *)
(* (load_layerstack), and a layout cell is rendered into a scene of        *)
(* extruded polygons (render_to_mesh).                                     *)
(*                                                                         *)
(* Conventions.  An optional Python value is a sequence of length at most  *)
(* one: None is <<>> and a present value v is <<v>>.  The name of the      *)
(* i-th key of the YAML "layers" mapping is the integer i (YAML keys are   *)
(* unique).  A (ly,dt) key is the tuple <<ly, dt>>.  An identifier built   *)
(* by an f-string "a,b,c" is the tuple <<a, b, c>> of its fields.          *)
(***************************************************************************)
EXTENDS Integers, Sequences, FiniteSets, TLC

VARIABLES
    pc,          \* position of the program
    config,      \* the "layers" mapping of the YAML document, in document order
    layerstack,  \* None, or <<layers>>: the LayerStack.layers dict in insertion order
    err,         \* the exception that ended the invocation, "" when none
    layout,      \* render_to_mesh argument: the cells of the gdstk.Library
    topcell,     \* render_to_mesh argument: requested top cell name, or None
    out,         \* render_to_mesh argument: output path (a sequence of characters), or None
    cmap_given,  \* render_to_mesh argument: the colour map the caller passed, or None
    cmap,        \* local: the colour map in use (the argument, rebound at line 194), or None
    tcell,       \* local: the selected cell, or None
    canvas,      \* local: the root Scene, or None
    layer_canvas,\* local: the Scene of the layer being rendered, or None
    li,          \* local: index (1-based) in layerstack.layers.keys() of the running loop
    id,          \* local: enumerate() index of the polygon to render next
    shell,       \* local: the shell of the polygon rendered last
    holes,       \* local: the holes of the polygon rendered last
    exported,    \* the paths canvas.export was called with, in order
    warnings     \* the warnings delivered to the user, in order

vars == <<pc, config, layerstack, err, layout, topcell, out, cmap_given, cmap, tcell,
          canvas, layer_canvas, li, id, shell, holes, exported, warnings>>

renderVars == <<layout, topcell, out, cmap_given, cmap, tcell, canvas, layer_canvas, li, id,
                shell, holes, exported, warnings>>

----------------------------------------------------------------------------
(* Bounds of the model *)

MaxEntries == 2   \* layer entries of a configuration document (load_layerstack)
MaxPolys == 2     \* polygons of a layout cell
MaxCoord == 1     \* polygon vertices lie on the grid 0..MaxCoord x 0..MaxCoord
MaxVerts == 4     \* vertices of a polygon ring

----------------------------------------------------------------------------
(* Optional values *)

None == <<>>
Some(v) == <<v>>
Val(o) == o[1]

----------------------------------------------------------------------------
(* load_layerstack *)

\* The Layer record built from a well-formed entry.
MakeLayer(e) ==
    [name |-> e.name, lydt |-> <<Val(e.ly), Val(e.dt)>>,
     type |-> Val(e.type), rgba |-> e.rgba,
     zh |-> e.zh, th |-> e.th, top |-> e.top, bot |-> e.bot]

\* The first check an entry fails, "" when it passes all of them.
EntryErrorMutantFalsy(e) ==
    IF ~e.meta THEN "AssertionError: missing metadata"
    ELSE IF e.type = None THEN "AssertionError: missing metadata type"
    ELSE IF ~e.props THEN "AssertionError: missing properties"
    ELSE IF e.ly \in {None, Some(0)} \/ e.dt \in {None, Some(0)}
         THEN "ValueError: missing properties"
    ELSE ""
EntryError(e) ==
    IF ~e.meta THEN "AssertionError: missing metadata"
    ELSE IF e.type = None THEN "AssertionError: missing metadata type"
    ELSE IF ~e.props THEN "AssertionError: missing properties"
    ELSE IF e.ly = None \/ e.dt = None THEN "ValueError: missing properties"
    ELSE ""

\* Positions in a sequence of layers that hold the key lydt.
KeyPositions(layers, lydt) == {j \in 1..Len(layers) : layers[j].lydt = lydt}

\* layerstack[lydt] = layer on a dict: a key already present keeps its position
\* and takes the new value, a new key goes last.
DictPutMutantAppend(layers, layer) == Append(layers, layer)
DictPut(layers, layer) ==
    IF KeyPositions(layers, layer.lydt) = {}
    THEN Append(layers, layer)
    ELSE [j \in 1..Len(layers) |->
            IF layers[j].lydt = layer.lydt THEN layer ELSE layers[j]]

\* The first loop: entries i..Len(cfg) are read in order into layers.
RECURSIVE ReadEntries(_, _, _)
ReadEntries(cfg, i, layers) ==
    IF i > Len(cfg) THEN [err |-> "", layers |-> layers]
    ELSE IF EntryError(cfg[i]) # "" THEN [err |-> EntryError(cfg[i]), layers |-> layers]
    ELSE ReadEntries(cfg, i + 1, DictPut(layers, MakeLayer(cfg[i])))

\* Positions of the layers of a given name, [ ... if layer.name == n].
NamePositions(layers, n) == {j \in 1..Len(layers) : layers[j].name = n}
Min(S) == CHOOSE x \in S : \A y \in S : x <= y

\* One iteration of the via loop on the layer at position v.
ResolveVia(layers, v) ==
    LET via == layers[v] IN
    IF via.top = None THEN [err |-> "AssertionError: missing top", layers |-> layers]
    ELSE IF via.bot = None THEN [err |-> "AssertionError: missing bot", layers |-> layers]
    ELSE IF NamePositions(layers, Val(via.top)) = {} THEN [err |-> "IndexError", layers |-> layers]
    ELSE IF NamePositions(layers, Val(via.bot)) = {} THEN [err |-> "IndexError", layers |-> layers]
    ELSE LET top_layer == layers[Min(NamePositions(layers, Val(via.top)))]
             bot_layer == layers[Min(NamePositions(layers, Val(via.bot)))]
             bot_th == bot_layer.th
             top_zh == top_layer.zh
             bot_zh == bot_layer.zh
         IN  IF bot_zh = None \/ bot_th = None
             THEN [err |-> "TypeError", layers |-> layers]
             ELSE LET zh == Val(bot_zh) + Val(bot_th)
                      withZh == [layers EXCEPT ![v].zh = Some(zh)]
                  IN  IF top_zh = None
                      THEN [err |-> "TypeError", layers |-> withZh]
                      ELSE [err |-> "",
                            layers |-> [withZh EXCEPT ![v].th = Some(Val(top_zh) - zh)]]

\* via_layers: the positions of the "cut" layers, in dict order.
ViaLayers(layers) == SelectSeq([j \in 1..Len(layers) |-> j], LAMBDA j : layers[j].type = "cut")

\* The second loop, over via_layers[k..].
RECURSIVE ResolveVias(_, _, _)
ResolveVias(layers, vias, k) ==
    IF k > Len(vias) THEN [err |-> "", layers |-> layers]
    ELSE LET r == ResolveVia(layers, vias[k]) IN
         IF r.err # "" THEN r ELSE ResolveVias(r.layers, vias, k + 1)

\* load_layerstack on the parsed document: the error, or the layers of the LayerStack.
LoadLayerstack(cfg) ==
    IF Len(cfg) = 0 THEN [err |-> "ValueError: missing layers", layers |-> <<>>]
    ELSE LET r == ReadEntries(cfg, 1, <<>>) IN
         IF r.err # "" THEN r ELSE ResolveVias(r.layers, ViaLayers(r.layers), 1)

\* LayerStack.__getitem__: self.layers.get(key).
GetItem(layers, key) ==
    IF KeyPositions(layers, key) = {} THEN None
    ELSE Some(layers[Min(KeyPositions(layers, key))])

\* len(layerstack.layers)
DictLen(layers) == Len(layers)

----------------------------------------------------------------------------
(* render_to_mesh: output format *)

\* A path is the sequence of its characters.
GLTF == <<".", "g", "l", "t", "f">>
GLB == <<".", "g", "l", "b">>
OBJ == <<".", "o", "b", "j">>
STL == <<".", "s", "t", "l">>
PLY == <<".", "p", "l", "y">>
_OUT_FILE_EXTENSIONS == {GLTF, GLB, OBJ, STL, PLY}

Max(S) == CHOOSE x \in S : \A y \in S : y <= x

\* Path(p).suffix: the last component of p from its last dot on, empty when
\* that dot is missing, leads the component or ends it.
Suffix(p) ==
    LET slash == Max({0} \cup {k \in 1..Len(p) : p[k] = "/"})
        name == SubSeq(p, slash + 1, Len(p))
        dot == Max({0} \cup {k \in 1..Len(name) : name[k] = "."})
    IN  IF dot > 1 /\ dot < Len(name) THEN SubSeq(name, dot, Len(name)) ELSE <<>>

\* "if out:" - neither None nor the empty string.
Truthy(o) == o # None /\ Val(o) # <<>>

\* Lines 175-180: the assertion on the output extension fails.
FormatRejectedMutantAny(o) == FALSE
FormatRejected(o) == Truthy(o) /\ Suffix(Val(o)) \notin _OUT_FILE_EXTENSIONS

----------------------------------------------------------------------------
(* render_to_mesh: top cell *)

CellNames(cells) == {cells[k].name : k \in 1..Len(cells)}

\* max(layout.cells, key=lambda cell: cell.area()): the first cell of greatest area.
LargestCell(cells) ==
    cells[Min({k \in 1..Len(cells) : \A j \in 1..Len(cells) : cells[j].area <= cells[k].area})]

\* layout[topcell]: the cell of that name.
CellByName(cells, n) == cells[Min({k \in 1..Len(cells) : cells[k].name = n})]

\* Lines 183-187.
SelectCell(cells, requested) ==
    IF requested = None \/ Val(requested) \notin CellNames(cells)
    THEN LargestCell(cells)
    ELSE CellByName(cells, Val(requested))

\* tcell.get_polygons(layer=, datatype=): the cell's polygons on that key, in order.
GetPolygonsMutantAll(cell, lydt) == cell.polygons
GetPolygons(cell, lydt) ==
    SelectSeq(cell.polygons, LAMBDA q : <<q.layer, q.datatype>> = lydt)

----------------------------------------------------------------------------
(* render_to_mesh: shell and holes of a polygon *)

\* list(OrderedDict.fromkeys(s)): the first occurrences, in order.
RECURSIVE Dedup(_)
Dedup(s) ==
    IF s = <<>> THEN <<>>
    ELSE LET r == Dedup(SubSeq(s, 1, Len(s) - 1))
             x == s[Len(s)]
         IN  IF \E k \in 1..Len(r) : r[k] = x THEN r ELSE Append(r, x)

Reverse(s) == [k \in 1..Len(s) |-> s[Len(s) + 1 - k]]

\* The elements of the pairs of s, pair by pair.
RECURSIVE Flatten(_)
Flatten(s) ==
    IF s = <<>> THEN <<>>
    ELSE Flatten(SubSeq(s, 1, Len(s) - 1)) \o <<s[Len(s)][1], s[Len(s)][2]>>

\* zip(s, s[1:] + s[:1]): the pairs with the one that closes the sequence.
PairsMutantClosed(s) == [k \in 1..Len(s) |-> <<s[k], s[(k % Len(s)) + 1]>>]

\* zip(s[:-1], s[1:])
Pairs(s) == [k \in 1..(Len(s) - 1) |-> <<s[k], s[k + 1]>>]

Cross(a, b) == a[1] * b[2] - a[2] * b[1]
Minus(a, b) == <<a[1] - b[1], a[2] - b[2]>>

\* _is_counter_clockwise(e1, e2)
IsCounterClockwise(e1, e2) ==
    LET vec1 == Minus(e1[2], e1[1])
        vec2 == Minus(e2[2], e2[1])
    IN  Cross(vec1, vec2) <= 0

EdgePairs(vertices) == Pairs(Pairs(vertices))

\* Lines 226-232.
Shell(vertices) ==
    LET shell_edges == Dedup(Flatten(SelectSeq(EdgePairs(vertices),
                           LAMBDA ep : IsCounterClockwise(ep[1], ep[2]))))
    IN  Dedup(Flatten(shell_edges))

\* Lines 235-243.
Holes(vertices) ==
    LET holes_edges == Reverse(Dedup(Flatten(SelectSeq(EdgePairs(vertices),
                           LAMBDA ep : ~IsCounterClockwise(ep[1], ep[2])))))
    IN  Dedup(Flatten(holes_edges))

\* The shell spans no area: fewer than 3 distinct points, or all on a line.
Degenerate(ring) ==
    ~\E a, b, c \in 1..Len(ring) :
        Cross(Minus(ring[b], ring[a]), Minus(ring[c], ring[a])) # 0

\* Lines 245-251: Polygon(shell, holes) and creation.extrude_polygon raise, as
\* the extruder does on a degenerate shell or on a height that is not positive.
ExtrudeFails(ring, inner, height) == Degenerate(ring) \/ height <= 0

----------------------------------------------------------------------------
(* render_to_mesh: scene *)

\* Scene(base_frame=, metadata={"id": ...}) with no geometry yet.
Scene(base_frame, ident) == [base_frame |-> base_frame, id |-> ident, geometry |-> <<>>]

\* scene.add_geometry(g, node_name=, metadata={"id": ...})
AddGeometry(scene, g, node_name, ident) ==
    [scene EXCEPT !.geometry = Append(@, [node_name |-> node_name, id |-> ident, geom |-> g])]

\* Lines 193-202: the colour map built when none is given.
DefaultCmap(layers, cell) ==
    [k \in {layers[j].lydt : j \in 1..Len(layers)} |->
        [n \in 0..(Len(GetPolygons(cell, k)) - 1) |-> Val(GetItem(layers, k)).rgba]]

\* cmap[(layer, datatype)][id] raises KeyError.
ColourMissing(cm, lydt, n) == lydt \notin DOMAIN cm \/ n \notin DOMAIN cm[lydt]

----------------------------------------------------------------------------
(* Configuration documents *)

LyValues == {0, 1}
DtValues == {0}
Rgba(i) == <<i, i, i, 255>>

\* A well-formed routing entry; the other entries are variations of it.  The
\* name and the colour are those of the position the entry takes in the document.
WellFormed ==
    [name |-> 0, meta |-> TRUE, type |-> Some("routing"), rgba |-> Rgba(0), props |-> TRUE,
     ly |-> Some(0), dt |-> Some(0), zh |-> Some(0), th |-> Some(1),
     top |-> None, bot |-> None]

\* Entries that fail one of the checks of the first loop.
DefectEntries ==
    { [WellFormed EXCEPT !.meta = FALSE, !.type = None],
      [WellFormed EXCEPT !.type = None],
      [WellFormed EXCEPT !.props = FALSE, !.ly = None, !.dt = None,
                         !.zh = None, !.th = None],
      [WellFormed EXCEPT !.ly = None],
      [WellFormed EXCEPT !.dt = None] }

RoutingHeights == {<<Some(0), Some(1)>>, <<Some(2), Some(1)>>,
                   <<None, Some(1)>>, <<Some(0), None>>}
CutHeights == {<<None, None>>, <<Some(0), Some(1)>>}
Refs == {None} \cup {Some(n) : n \in 1..MaxEntries}

RoutingEntries ==
    { [WellFormed EXCEPT !.ly = Some(l), !.dt = Some(d), !.zh = h[1], !.th = h[2]] :
        l \in LyValues, d \in DtValues, h \in RoutingHeights }

CutEntries ==
    { [WellFormed EXCEPT !.type = Some("cut"), !.ly = Some(l), !.dt = Some(d),
                         !.zh = h[1], !.th = h[2], !.top = t, !.bot = b] :
        l \in LyValues, d \in DtValues, h \in CutHeights, t \in Refs, b \in Refs }

Entries == DefectEntries \cup RoutingEntries \cup CutEntries

\* The document whose i-th entry is s[i] under the key i.
Document(s) == [i \in 1..Len(s) |-> [s[i] EXCEPT !.name = i, !.rgba = Rgba(i)]]

\* Documents of the rendering runs: a metal, two metals, and a via between
\* two metals, with the heights present, missing, touching or overlapping.
Metal(l, zh, th) == [WellFormed EXCEPT !.ly = Some(l), !.zh = zh, !.th = th]
Via(l, bot, top) ==
    [WellFormed EXCEPT !.type = Some("cut"), !.ly = Some(l), !.zh = None, !.th = None,
                       !.bot = Some(bot), !.top = Some(top)]
StackDocuments ==
    {Document(<<Metal(0, h[1], h[2])>>) : h \in RoutingHeights \cup {<<Some(0), Some(0)>>}}
    \cup {Document(<<Metal(0, Some(0), Some(1)), Metal(1, None, Some(1))>>),
          Document(<<Metal(0, Some(0), Some(1)), Via(1, 1, 3)>>)}
    \cup {Document(<<Metal(0, Some(0), Some(1)), Via(1, 1, 3), Metal(2, Some(z), Some(1))>>) :
            z \in 0..2}

----------------------------------------------------------------------------
(* Layouts and the other arguments of render_to_mesh *)

\* Vertex rings of the polygons of a layout: the unit square walked in both senses.
SquareCW == <<<<0, 0>>, <<0, 1>>, <<1, 1>>, <<1, 0>>>>
SquareCCW == <<<<0, 0>>, <<1, 0>>, <<1, 1>>, <<0, 1>>>>
PolygonRings == {SquareCW, SquareCCW}
PolygonLayers == {0, 1, 2}

Polygons ==
    [layer : PolygonLayers, datatype : DtValues, points : PolygonRings]
PolygonLists == UNION {[1..n -> Polygons] : n \in 0..MaxPolys}

\* The areas of the cells of a library, in the order of layout.cells; the
\* k-th cell is named CellName[k].
CellName == <<"A", "B">>
CellAreas == {<<>>, <<1>>, <<1, 2>>, <<2, 2>>}

\* Every cell of a drawn library holds the drawn polygons: only the polygons
\* of the selected cell are ever queried.
Library(areas, polygons) ==
    [k \in 1..Len(areas) |-> [name |-> CellName[k], area |-> areas[k], polygons |-> polygons]]

TopCellArgs == {None, Some("A"), Some("B")}
OutArgs == {None, Some(<<>>), Some(<<"m">> \o GLB), Some(<<"m", ".", "s", "v", "g">>), Some(GLB)}

\* Colour maps a caller supplies: none, an empty one, and one that colours the
\* first n polygons of every (layer, datatype) a polygon may lie on.
Override(k, n) == <<200, k[1], n, 255>>
CmapArgs ==
    {None, Some(<<>>)}
    \cup {Some([k \in {<<l, d>> : l \in PolygonLayers, d \in DtValues} |->
                  [i \in 0..(n - 1) |-> Override(k, i)]]) : n \in {1, MaxPolys}}

----------------------------------------------------------------------------
(* Actions *)

RenderIdle ==
    /\ layout = <<>> /\ topcell = None /\ out = None /\ cmap_given = None /\ cmap = None
    /\ tcell = None /\ canvas = None /\ layer_canvas = None
    /\ li = 0 /\ id = 0 /\ shell = <<>> /\ holes = <<>>
    /\ exported = <<>> /\ warnings = <<>>

InitLoad ==
    /\ pc = "start"
    /\ \E n \in 0..MaxEntries : \E s \in [1..n -> Entries] : config = Document(s)
    /\ layerstack = None
    /\ err = ""
    /\ RenderIdle

\* load_layerstack(fp) on the document config.
Load ==
    /\ pc = "start"
    /\ LET r == LoadLayerstack(config) IN
       IF r.err # ""
       THEN /\ pc' = "load_failed"
            /\ err' = r.err
            /\ layerstack' = None
       ELSE /\ pc' = "loaded"
            /\ err' = ""
            /\ layerstack' = Some(r.layers)
    /\ UNCHANGED <<config, renderVars>>

NextLoad == Load

SpecLoad == InitLoad /\ [][NextLoad]_vars

Init ==
    /\ pc = "start"
    /\ config \in StackDocuments
    /\ layerstack = None
    /\ err = ""
    /\ RenderIdle

Fail(e) == pc' = "failed" /\ err' = e

\* render_to_mesh(layout, layerstack, topcell, out, cmap) is called; lines 175-180.
RenderCall ==
    /\ pc = "loaded"
    /\ \E areas \in CellAreas, polygons \in PolygonLists :
          layout' = Library(areas, polygons)
    /\ topcell' \in TopCellArgs
    /\ out' \in OutArgs
    /\ cmap_given' \in CmapArgs
    /\ cmap' = cmap_given'
    /\ IF FormatRejected(out')
       THEN Fail("AssertionError: unsupported output file format")
       ELSE pc' = "topcell" /\ err' = ""
    /\ UNCHANGED <<config, layerstack, tcell, canvas, layer_canvas, li, id, shell, holes,
                   exported, warnings>>

\* Lines 182-190: the top cell and the root scene.  Warning(...) builds an
\* exception object that is neither raised nor passed on.
SelectTopCell ==
    /\ pc = "topcell"
    /\ IF layout = <<>>
       THEN /\ Fail("ValueError: max() arg is an empty sequence")
            /\ UNCHANGED <<tcell, canvas>>
       ELSE /\ tcell' = Some(SelectCell(layout, topcell))
            /\ canvas' = Some(Scene(Val(tcell').name, Val(tcell').name))
            /\ pc' = "cmap" /\ err' = ""
    /\ UNCHANGED <<config, layerstack, layout, topcell, out, cmap_given, cmap, layer_canvas,
                   li, id, shell, holes, exported, warnings>>

\* Lines 192-202: the colour map.
SetupCmap ==
    /\ pc = "cmap"
    /\ cmap' = IF cmap = None THEN Some(DefaultCmap(Val(layerstack), Val(tcell))) ELSE cmap
    /\ li' = 1
    /\ pc' = "layers"
    /\ UNCHANGED <<config, layerstack, err, layout, topcell, out, cmap_given, tcell, canvas,
                   layer_canvas, id, shell, holes, exported, warnings>>

\* The layer the outer loop is at, and its polygons.
Layer == Val(layerstack)[li]
layer_polys == GetPolygons(Val(tcell), Layer.lydt)

\* Lines 204-218: the next key of the stack; its scene, and its heights.
BeginLayerMutantNoAssert ==
    /\ pc = "layers" /\ li <= Len(Val(layerstack))
    /\ layer_canvas' = Some(Scene(Val(tcell).name,
                                   <<Layer.lydt[1], Layer.lydt[2], Layer.name>>))
    /\ pc' = "polygons" /\ err' = ""
    /\ id' = 0
    /\ UNCHANGED <<config, layerstack, layout, topcell, out, cmap_given, cmap, tcell, canvas,
                   li, shell, holes, exported, warnings>>
BeginLayer ==
    /\ pc = "layers" /\ li <= Len(Val(layerstack))
    /\ layer_canvas' = Some(Scene(Val(tcell).name,
                                   <<Layer.lydt[1], Layer.lydt[2], Layer.name>>))
    /\ IF Layer.zh = None THEN Fail("AssertionError: missing property zh")
       ELSE IF Layer.th = None THEN Fail("AssertionError: missing property th")
       ELSE pc' = "polygons" /\ err' = ""
    /\ id' = 0
    /\ UNCHANGED <<config, layerstack, layout, topcell, out, cmap_given, cmap, tcell, canvas,
                   li, shell, holes, exported, warnings>>

\* Lines 220-258: the polygon of index id is extruded, coloured and added.
RenderPolygon ==
    /\ pc = "polygons" /\ id < Len(layer_polys)
    /\ shell' = Shell(layer_polys[id + 1].points)
    /\ holes' = Holes(layer_polys[id + 1].points)
    /\ LET zbot == Val(Layer.zh)
           height == Val(Layer.th)
           key == Layer.lydt
           poly3D == [shell |-> shell', holes |-> holes', zbot |-> zbot, height |-> height,
                      face_colors |-> Val(cmap)[key][id]]
       IN  IF ExtrudeFails(shell', holes', height)
           THEN Fail("ValueError: extrusion") /\ UNCHANGED <<layer_canvas, id>>
           ELSE IF ColourMissing(Val(cmap), key, id)
           THEN Fail("KeyError") /\ UNCHANGED <<layer_canvas, id>>
           ELSE /\ layer_canvas' = Some(AddGeometry(Val(layer_canvas), poly3D,
                                                    <<key[1], key[2], id>>, <<key[1], key[2], id>>))
                /\ id' = id + 1
                /\ UNCHANGED <<pc, err>>
    /\ UNCHANGED <<config, layerstack, layout, topcell, out, cmap_given, cmap, tcell, canvas,
                   li, exported, warnings>>

\* Line 259: the scene of the layer is added to the root scene.
EndLayer ==
    /\ pc = "polygons" /\ id = Len(layer_polys)
    /\ canvas' = Some(AddGeometry(Val(canvas), Val(layer_canvas), Layer.lydt, Layer.lydt))
    /\ li' = li + 1
    /\ pc' = "layers"
    /\ UNCHANGED <<config, layerstack, err, layout, topcell, out, cmap_given, cmap, tcell,
                   layer_canvas, id, shell, holes, exported, warnings>>

\* Lines 261-264: the export, and the return.
ExportMutantInLoop ==
    /\ pc = "layers"
    /\ exported' = IF Truthy(out) THEN Append(exported, Val(out)) ELSE exported
    /\ pc' = IF li > Len(Val(layerstack)) THEN "done" ELSE "layers"
    /\ UNCHANGED <<config, layerstack, err, layout, topcell, out, cmap_given, cmap, tcell,
                   canvas, layer_canvas, li, id, shell, holes, warnings>>
Export ==
    /\ pc = "layers" /\ li > Len(Val(layerstack))
    /\ exported' = IF Truthy(out) THEN Append(exported, Val(out)) ELSE exported
    /\ pc' = "done"
    /\ UNCHANGED <<config, layerstack, err, layout, topcell, out, cmap_given, cmap, tcell,
                   canvas, layer_canvas, li, id, shell, holes, warnings>>

Next ==
    \/ Load
    \/ RenderCall
    \/ SelectTopCell
    \/ SetupCmap
    \/ BeginLayer
    \/ RenderPolygon
    \/ EndLayer
    \/ Export

Spec == Init /\ [][Next]_vars


----------------------------------------------------------------------------
(* The shell and the holes of any ring: a render that has reached the first  *)
(* polygon of a one-metal stack, the polygon being any ring on the grid.     *)

Points == {<<x, y>> : x \in 0..MaxCoord, y \in 0..MaxCoord}
Rings == UNION {[1..n -> Points] : n \in 0..MaxVerts}

OneMetal == Document(<<Metal(0, Some(0), Some(1))>>)

InitPoly ==
    /\ pc = "polygons"
    /\ config = OneMetal
    /\ layerstack = Some(LoadLayerstack(OneMetal).layers)
    /\ err = ""
    /\ \E r \in Rings :
          layout = Library(<<1>>, <<[layer |-> 0, datatype |-> 0, points |-> r]>>)
    /\ topcell = None /\ out = None /\ cmap_given = None
    /\ tcell = Some(SelectCell(layout, topcell))
    /\ cmap = Some(DefaultCmap(Val(layerstack), Val(tcell)))
    /\ canvas = Some(Scene("A", "A"))
    /\ layer_canvas = Some(Scene("A", <<0, 0, 1>>))
    /\ li = 1 /\ id = 0 /\ shell = <<>> /\ holes = <<>>
    /\ exported = <<>> /\ warnings = <<>>

NextPoly == RenderPolygon \/ EndLayer \/ Export

SpecPoly == InitPoly /\ [][NextPoly]_vars

----------------------------------------------------------------------------
(* Properties of load_layerstack, checked under SpecLoad *)

Loaded == pc = "loaded"
Layers == Val(layerstack)
Entry(i) == config[i]
EntryKey(i) == <<Val(Entry(i).ly), Val(Entry(i).dt)>>

\* The layer of the stack that a name refers to: the first match by name.
Named(n) == Layers[Min(NamePositions(Layers, n))]

\* C1 (as claimed): after load_layerstack returns, every "cut" layer has
\* concrete zh and th with zh = bot.zh + bot.th and zh + th = top.zh, bot and
\* top being the layers its bot and top properties name, also when a cut
\* layer names a cut layer.
C1_ViaHeights ==
    Loaded =>
        \A j \in 1..Len(Layers) :
            Layers[j].type = "cut" =>
                LET via == Layers[j]
                    b == Named(Val(via.bot))
                    t == Named(Val(via.top))
                IN  /\ via.zh # None /\ via.th # None
                    /\ b.zh # None /\ b.th # None /\ t.zh # None
                    /\ Val(via.zh) = Val(b.zh) + Val(b.th)
                    /\ Val(via.zh) + Val(via.th) = Val(t.zh)

\* An entry lacks metadata, a metadata type, properties, ly or dt.
Defective(e) == ~e.meta \/ e.type = None \/ ~e.props \/ e.ly = None \/ e.dt = None
AllWellFormed == \A i \in 1..Len(config) : ~Defective(Entry(i))

\* Entry i is the last one of the document that declares its (ly,dt).
Kept(i) == \A j \in (i + 1)..Len(config) : EntryKey(j) # EntryKey(i)
KeptNames == {i \in 1..Len(config) : Kept(i)}

\* C3 (as claimed): load_layerstack fails whenever an entry is defective or
\* the top or bot of a "cut" entry is missing or names no entry of the
\* document.
C3_LoadErrors ==
    (/\ pc # "start"
     /\ \/ ~AllWellFormed
        \/ \E i \in 1..Len(config) :
              /\ Entry(i).type = Some("cut")
              /\ \/ Entry(i).top = None \/ Entry(i).bot = None
                 \/ Val(Entry(i).top) \notin 1..Len(config)
                 \/ Val(Entry(i).bot) \notin 1..Len(config))
    => pc = "load_failed" /\ layerstack = None

\* C3 (amended): load_layerstack fails whenever an entry is defective, or a
\* "cut" entry that is the last to declare its (ly,dt) has a top or bot that
\* is missing or names no entry that is the last to declare its (ly,dt); and
\* it reports missing ly/dt only when ly or dt is absent, never for a 0.
C3_LoadErrorsKept ==
    /\ (/\ pc # "start"
         /\ \/ ~AllWellFormed
            \/ \E i \in KeptNames :
                  /\ Entry(i).type = Some("cut")
                  /\ \/ Entry(i).top = None \/ Entry(i).bot = None
                     \/ Val(Entry(i).top) \notin KeptNames
                     \/ Val(Entry(i).bot) \notin KeptNames)
        => pc = "load_failed" /\ layerstack = None
    /\ err = "ValueError: missing properties"
        => \E i \in 1..Len(config) : Entry(i).ly = None \/ Entry(i).dt = None

\* A load that failed on an unresolved top, in a document that declares ly 0, dt 0.
C3_Witness ==
    /\ pc = "load_failed" /\ err = "IndexError" /\ AllWellFormed
    /\ \E i \in KeptNames : Entry(i).type = Some("cut") /\ Entry(i).top # None
                              /\ Val(Entry(i).top) \notin KeptNames
    /\ \E i \in 1..Len(config) : Entry(i).ly = Some(0) /\ Entry(i).dt = Some(0)

\* Keys a caller may look up: the declarable ones and one beyond them.
ProbeKeys == {<<l, d>> : l \in LyValues \cup {2}, d \in DtValues \cup {1}}

\* C10 (as claimed): the LayerStack holds one Layer per entry of the
\* document: its size is the number of entries, a declared (ly,dt) looks up
\* the Layer with that entry's name and metadata, an undeclared one gives None.
C10_OnePerEntry ==
    Loaded =>
        /\ DictLen(Layers) = Len(config)
        /\ \A i \in 1..Len(config) :
              /\ GetItem(Layers, EntryKey(i)) # None
              /\ Val(GetItem(Layers, EntryKey(i))).name = Entry(i).name
              /\ Val(GetItem(Layers, EntryKey(i))).type = Val(Entry(i).type)
              /\ Val(GetItem(Layers, EntryKey(i))).rgba = Entry(i).rgba
        /\ \A k \in ProbeKeys :
              (\A i \in 1..Len(config) : EntryKey(i) # k) => GetItem(Layers, k) = None

\* C10 (amended): the LayerStack holds one Layer per distinct (ly,dt) of the
\* document: its size is the number of distinct (ly,dt), a declared (ly,dt)
\* looks up the Layer with the name and metadata of the last entry declaring
\* it, an undeclared one gives None.
C10_OnePerKey ==
    Loaded =>
        /\ DictLen(Layers) = Cardinality({EntryKey(i) : i \in 1..Len(config)})
        /\ \A i \in KeptNames :
              /\ GetItem(Layers, EntryKey(i)) # None
              /\ Val(GetItem(Layers, EntryKey(i))).name = Entry(i).name
              /\ Val(GetItem(Layers, EntryKey(i))).type = Val(Entry(i).type)
              /\ Val(GetItem(Layers, EntryKey(i))).rgba = Entry(i).rgba
        /\ \A k \in ProbeKeys :
              (\A i \in 1..Len(config) : EntryKey(i) # k) => GetItem(Layers, k) = None

\* A loaded document in which two entries declare the same (ly,dt).
C10_Witness ==
    /\ Loaded /\ Len(config) = 2 /\ EntryKey(1) = EntryKey(2)
    /\ DictLen(Layers) = 1 /\ Layers[1].name = 2

----------------------------------------------------------------------------
(* Properties of the shell and hole assembly, checked under SpecPoly *)

\* The ring of the polygon of the library.
TheRing == layout[1].polygons[1].points
Assembled == pc = "failed" \/ id > 0

\* Turn at vertex k of a ring closed from its last vertex to its first.
Turn(r, k) ==
    LET n == Len(r)
        a == r[k]
        b == r[(k % n) + 1]
        c == r[((k + 1) % n) + 1]
    IN  Cross(Minus(b, a), Minus(c, b))

\* A convex polygon: at least 3 distinct vertices that all turn the same way.
ConvexRing(r) ==
    /\ Len(r) >= 3
    /\ \A j, k \in 1..Len(r) : j # k => r[j] # r[k]
    /\ \/ \A k \in 1..Len(r) : Turn(r, k) > 0
       \/ \A k \in 1..Len(r) : Turn(r, k) < 0

Range(q) == {q[k] : k \in 1..Len(q)}

\* C2 (as claimed): a convex ring gives an empty hole sequence, and the ring
\* (0,0),(1,0),(1,1),(0,1) gives a shell with its 4 corners and no holes.
C2_ConvexNoHoles ==
    Assembled =>
        /\ ConvexRing(TheRing) => holes = <<>>
        /\ TheRing = SquareCCW => Range(shell) = Range(SquareCCW) /\ holes = <<>>

\* The turn at the k-th pair of consecutive edges of an open ring: the edges
\* r[k] -> r[k+1] and r[k+1] -> r[k+2], for k up to Len(r) - 2.
NPairs(r) == IF Len(r) >= 2 THEN Len(r) - 2 ELSE 0
TurnAt(r, k) == Cross(Minus(r[k + 1], r[k]), Minus(r[k + 2], r[k + 1]))
ClassedAs(r, k, ccw) == (TurnAt(r, k) <= 0) = ccw
PairEdges(r, k) == <<<<r[k], r[k + 1]>>, <<r[k + 1], r[k + 2]>>>>
PairVertices(r, k) == <<r[k], r[k + 1], r[k + 1], r[k + 2]>>

\* The vertices of the pairs 1..k classified ccw, from the first pair to the last.
RECURSIVE Touched(_, _, _)
Touched(r, k, ccw) ==
    IF k = 0 THEN <<>>
    ELSE Touched(r, k - 1, ccw) \o (IF ClassedAs(r, k, ccw) THEN PairVertices(r, k) ELSE <<>>)

\* The vertices of the pairs k..NPairs(r) classified ccw, from the last pair to the first.
RECURSIVE TouchedBackwards(_, _, _)
TouchedBackwards(r, k, ccw) ==
    IF k > NPairs(r) THEN <<>>
    ELSE TouchedBackwards(r, k + 1, ccw)
            \o (IF ClassedAs(r, k, ccw) THEN PairVertices(r, k) ELSE <<>>)

\* The edges of the pairs 1..k classified ccw, from the first pair to the last.
RECURSIVE TouchedEdges(_, _, _)
TouchedEdges(r, k, ccw) ==
    IF k = 0 THEN <<>>
    ELSE TouchedEdges(r, k - 1, ccw) \o (IF ClassedAs(r, k, ccw) THEN PairEdges(r, k) ELSE <<>>)

NoDuplicates(q) == \A j, k \in 1..Len(q) : j # k => q[j] # q[k]

\* C11 (as claimed): only the pairs of the edges 0..n-2 are classified, a pair
\* being CCW iff its cross product is <= 0; the shell is the duplicate-free
\* sequence of the vertices of the CCW pairs in first-seen order, and the
\* holes are the duplicate-free sequence of the vertices of the CW pairs taken
\* with the sequence of the edge pairs reversed.
C11_PairsReversed ==
    Assembled =>
        /\ NoDuplicates(shell) /\ NoDuplicates(holes)
        /\ shell = Dedup(Touched(TheRing, NPairs(TheRing), TRUE))
        /\ holes = Dedup(TouchedBackwards(TheRing, 1, FALSE))

\* C11 (amended): as above for the edges, the classification and the shell;
\* the holes are the duplicate-free sequence of the vertices of the distinct
\* edges of the CW pairs, the edges taken from the last first-seen edge to the
\* first and each edge from its start to its end.
C11_EdgesReversed ==
    Assembled =>
        /\ NoDuplicates(shell) /\ NoDuplicates(holes)
        /\ shell = Dedup(Touched(TheRing, NPairs(TheRing), TRUE))
        /\ holes = Dedup(Flatten(Reverse(Dedup(TouchedEdges(TheRing, NPairs(TheRing), FALSE)))))
        /\ Len(TheRing) >= 3 => Range(shell) \cup Range(holes) = Range(TheRing)
        /\ Len(TheRing) < 3 => shell = <<>> /\ holes = <<>>

\* An assembled ring of 4 vertices with one CCW pair and one CW pair, whose
\* polygon was extruded.
C11_Witness ==
    /\ id > 0 /\ Len(TheRing) = 4
    /\ shell # <<>> /\ holes # <<>>
    /\ \E j, k \in 1..NPairs(TheRing) : ClassedAs(TheRing, j, TRUE) /\ ClassedAs(TheRing, k, FALSE)

----------------------------------------------------------------------------
(* Properties of render_to_mesh, checked under Spec *)

Rendering == pc \in {"topcell", "cmap", "layers", "polygons", "done", "failed"}
Stack == Val(layerstack)

\* The polygons of the selected cell on the key of the j-th layer, as the
\* library holds them.
PolygonsOn(j) ==
    SelectSeq(Val(tcell).polygons,
              LAMBDA q : q.layer = Stack[j].lydt[1] /\ q.datatype = Stack[j].lydt[2])

\* The scene of the j-th layer: in the root scene once added, else the one under way.
Nodes(scene) == scene.geometry

C5_Colours ==
    /\ pc = "done" =>
          \A j \in 1..Len(Stack) : \A n \in 1..Len(Nodes(Nodes(Val(canvas))[j].geom)) :
              LET colour == Nodes(Nodes(Val(canvas))[j].geom)[n].geom.face_colors IN
              IF cmap_given = None
              THEN colour = Stack[j].rgba
              ELSE colour = Val(cmap_given)[Stack[j].lydt][n - 1]
    /\ cmap_given # None => err # "KeyError"

\* The output path names a file whose extension is none of the five.
OutGiven == out # None /\ Val(out) # <<>>
Unsupported == OutGiven /\ Suffix(Val(out)) \notin {GLTF, GLB, OBJ, STL, PLY}

BadPolygon(j, n) ==
    ExtrudeFails(Shell(PolygonsOn(j)[n].points), Holes(PolygonsOn(j)[n].points),
                 Val(Stack[j].th))
BadLayer(j) == Stack[j].zh = None \/ Stack[j].th = None
GeometryError ==
    err \in {"AssertionError: missing property zh", "AssertionError: missing property th",
             "ValueError: extrusion"}

\* C7: the export runs at most once, and only in a render that went through
\* every layer and every polygon without error; a render that meets a layer
\* without zh or th, or a polygon that cannot be extruded, stops there: all
\* before it was rendered, nothing after it is, and nothing is exported.
C7_ExportLast ==
    /\ Len(exported) <= 1
    /\ exported # <<>> =>
          /\ pc = "done" /\ err = "" /\ exported = <<Val(out)>>
          /\ Len(Nodes(Val(canvas))) = Len(Stack)
          /\ \A j \in 1..Len(Stack) :
                /\ ~BadLayer(j)
                /\ Len(Nodes(Nodes(Val(canvas))[j].geom)) = Len(PolygonsOn(j))
                /\ \A n \in 1..Len(PolygonsOn(j)) : ~BadPolygon(j, n)
    /\ (pc = "done" /\ OutGiven) => exported # <<>>
    /\ (pc = "failed" /\ GeometryError) =>
          /\ exported = <<>>
          /\ ~ENABLED Next
          /\ Len(Nodes(Val(canvas))) = li - 1
          /\ \A j \in 1..(li - 1) :
                /\ ~BadLayer(j)
                /\ \A n \in 1..Len(PolygonsOn(j)) : ~BadPolygon(j, n)
          /\ IF BadLayer(li)
             THEN Nodes(Val(layer_canvas)) = <<>>
             ELSE /\ Len(Nodes(Val(layer_canvas))) = id
                  /\ \A n \in 1..id : ~BadPolygon(li, n)
                  /\ BadPolygon(li, id + 1)

\* A render that stopped at the second polygon of a layer that is not the
\* last, with an output path given.
C7_Witness ==
    /\ pc = "failed" /\ err = "ValueError: extrusion" /\ OutGiven
    /\ id = 1 /\ li < Len(Stack)

\* C8 (as claimed): a requested name that is the name of a cell selects that
\* cell; otherwise the first cell of greatest area is selected, a warning is
\* emitted and the render goes on.
C8_TopCell ==
    tcell # None =>
        IF topcell # None /\ \E k \in 1..Len(layout) : layout[k].name = Val(topcell)
        THEN Val(tcell).name = Val(topcell)
        ELSE /\ \E k \in 1..Len(layout) :
                  /\ Val(tcell) = layout[k]
                  /\ \A j \in 1..Len(layout) : layout[j].area <= layout[k].area
                  /\ \A j \in 1..(k - 1) : layout[j].area < layout[k].area
             /\ warnings # <<>>
             /\ pc # "failed" \/ err # ""

\* C9 (as claimed): once load_layerstack has returned, every layer of the
\* stack has a concrete zh and th, neither of them negative.
C9_HeightsNonNegative ==
    layerstack # None =>
        \A j \in 1..Len(Stack) :
            /\ Stack[j].zh # None /\ Stack[j].th # None
            /\ Val(Stack[j].zh) >= 0 /\ Val(Stack[j].th) >= 0

\* C9 (amended): once load_layerstack has returned, every "cut" layer has a
\* concrete zh and th, and the polygons of a layer are rendered only when the
\* layer has a concrete zh and th, which place the solid; neither is
\* guaranteed to be non-negative.
C9_HeightsConcrete ==
    layerstack # None =>
        /\ \A j \in 1..Len(Stack) :
              Stack[j].type = "cut" => Stack[j].zh # None /\ Stack[j].th # None
        /\ pc = "polygons" =>
              /\ Stack[li].zh # None /\ Stack[li].th # None
              /\ \A n \in 1..Len(Nodes(Val(layer_canvas))) :
                    /\ Nodes(Val(layer_canvas))[n].geom.zbot = Val(Stack[li].zh)
                    /\ Nodes(Val(layer_canvas))[n].geom.height = Val(Stack[li].th)
        /\ canvas # None =>
              \A j \in 1..Len(Nodes(Val(canvas))) :
                  /\ Stack[j].zh # None /\ Stack[j].th # None
                  /\ \A n \in 1..Len(Nodes(Nodes(Val(canvas))[j].geom)) :
                        /\ Nodes(Nodes(Val(canvas))[j].geom)[n].geom.zbot = Val(Stack[j].zh)
                        /\ Nodes(Nodes(Val(canvas))[j].geom)[n].geom.height = Val(Stack[j].th)

\* A via with derived heights in a stack whose polygons are being rendered.
C9_Witness ==
    /\ pc = "polygons" /\ id > 0
    /\ \E j \in 1..Len(Stack) : Stack[j].type = "cut" /\ Val(Stack[j].th) > 0

====
